---- MODULE Spec2Model ----
(***************************************************************************)
(* Model of the clear-match-ai recruiting CRM: the relational schema with  *)
(* its row-level-security policies, check constraints and updated_at       *)
(* triggers (the SQL migration), and the Candidates page's query           *)
(* composition (fetchCandidates).                                          *)
(*                                                                         *)
(* Spec       the database: statements issued by authenticated users and   *)
(*            by the service role against the seeded store.                *)
(* SpecFetch  the Candidates page: fetchCandidates applied to search text  *)
(*            and filter values drawn from FilterState.                    *)
(*                                                                         *)
(* Policy sub-selects (SELECT organization_id FROM profiles WHERE          *)
(* id = auth.uid()) are evaluated against the caller's own profile row.    *)
(***************************************************************************)
EXTENDS Integers, Sequences, FiniteSets, TLC

VARIABLES
    db,          \* the store: table name -> set of rows
    now,         \* the database clock (value of now())
    lastResp,    \* the response to the statement executed last
    user,        \* Candidates page: useAuth().user
    searchQuery, \* Candidates page: search text
    filters,     \* Candidates page: FilterState
    candidates,  \* Candidates page: the displayed list
    loading,     \* Candidates page: loading flag
    mounted,     \* Candidates page: the mount effect has run
    lastFetch,   \* Candidates page: response of the last awaited query
    client,             \* the role the store sees in the requests of lib/supabase
    templates,          \* Templates: the list
    templatesLoading,   \* Templates: loading flag
    templatesSearch,    \* Templates: searchQuery
    selectedTemplate,   \* Templates: {} for null, {t} for the template being edited
    isEditing,          \* Templates: the form is shown
    formData,           \* Templates: the form's fields
    templatesMounted,   \* Templates: the mount effect has run
    dashboardLoading,   \* Dashboard: loading flag
    dashboardMounted,   \* Dashboard: the mount effect has run
    stats,              \* Dashboard: the statistics shown
    recentActivities,   \* Dashboard: the activities shown
    session,            \* supabase.auth: "none" or the signed-in user
    route,              \* the router's location
    layoutMounted,      \* Layout: rendered and its effect has run
    subscribed,         \* Layout: its onAuthStateChange callback is registered
    lastNav,            \* the caller of the last navigate()
    inflight,           \* async functions suspended at an await, each with its response
    lastDone            \* the async function that ran to its end last, and its response's status

dbVars == <<db, now, lastResp>>
candVars == <<searchQuery, filters, candidates, loading, mounted, lastFetch>>
tplVars == <<client, templates, templatesLoading, templatesSearch, selectedTemplate,
             isEditing, formData, templatesMounted>>
dashVars == <<dashboardLoading, dashboardMounted, stats, recentActivities>>
layoutVars == <<session, route, layoutMounted, subscribed, lastNav>>
asyncVars == <<inflight, lastDone>>
uiVars == <<user, candVars, tplVars, dashVars, layoutVars, asyncVars>>
vars == <<dbVars, uiVars>>

---------------------------------------------------------------------------
(* Bounds *)

\* The clock stops the exploration after MaxTime - 2 writes.
MaxTime == 4

---------------------------------------------------------------------------
(* Values *)

NULL == "NULL"
Orgs == {"O1", "O2"}
Users == {"u1", "u2", "u3"}
ServiceRole == "service_role"
Roles == Users \cup {ServiceRole}

Tables == {"organizations", "profiles", "candidates", "activities",
           "tags", "candidate_tags", "templates"}

\* Tables with an organization_id column that hold tenant data.
OrgScopedTables == {"candidates", "activities", "tags", "templates"}

\* Tables that carry an updated_at column.
UpdatedAtTables == {"organizations", "profiles", "candidates", "templates"}

\* Tables that carry a created_at column.
CreatedAtTables == Tables

\* uuid_generate_v4() never returns a key twice: the keys it returns, in the
\* order of the clock.
FreshIds(t) ==
    CASE t = "candidates" -> <<"c3", "c4", "c5", "c6">>
      [] t = "activities" -> <<"a2", "a3", "a4", "a5">>
      [] t = "tags"       -> <<"g2", "g3", "g4", "g5">>
      [] t = "templates"  -> <<"t3", "t4", "t5", "t6">>
      [] OTHER            -> <<>>

\* The primary-key values statements aim at: those of the provisioned rows
\* and those generated since.
IdPool(t) ==
    CASE t = "organizations"  -> Orgs
      [] t = "profiles"       -> Users
      [] t = "candidates"     -> {"c1", "c2", "c3", "c4"}
      [] t = "activities"     -> {"a1", "a2"}
      [] t = "tags"           -> {"g1", "g2", "g3"}
      [] t = "templates"      -> {"t1", "t2", "t3"}
      [] t = "candidate_tags" -> {"c1", "c2", "c3"} \X {"g1", "g2"}

\* SQL NULL of a text column (texts are sequences of characters) and of a jsonb column.
NullText == <<NULL>>
NullJson == [kind |-> "sqlnull"]

\* jsonb values of templates.variables: Record<string, string>.
JsonObject(fields) == [kind |-> "object", fields |-> fields]

---------------------------------------------------------------------------
(* Schema: rows *)

OrganizationRow(id, at) ==
    [id |-> id, name |-> "acme", created_at |-> at, updated_at |-> at]

ProfileRow(id, org, at) ==
    [id |-> id, organization_id |-> org, role |-> "recruiter",
     created_at |-> at, updated_at |-> at]

\* A candidates row: the columns the pages, policies and constraints read.
\* is_active_looking DEFAULT false; the other columns have no default.
CandidateRow(id, org, at) ==
    [id |-> id, organization_id |-> org,
     first_name |-> <<"A", "n", "n">>, last_name |-> <<"L", "e", "e">>,
     current_company |-> NullText, current_job_title |-> NullText,
     relationship_type |-> NULL, functional_role |-> NULL,
     current_location |-> NullJson, is_active_looking |-> "false",
     created_at |-> at, updated_at |-> at]

ActivityRow(id, org, cand, at) ==
    [id |-> id, candidate_id |-> cand, organization_id |-> org,
     type |-> "call", created_at |-> at]

TagRow(id, org, at) ==
    [id |-> id, organization_id |-> org, name |-> "vip", created_at |-> at]

CandidateTagRow(cand, tag, at) ==
    [candidate_id |-> cand, tag_id |-> tag, created_at |-> at]

TemplateRow(id, org, at) ==
    [id |-> id, organization_id |-> org, name |-> <<"Intro">>, type |-> "email",
     content |-> "Hi {name}", variables |-> NullJson,
     created_at |-> at, updated_at |-> at]

\* The primary key of a row.
Key(t, r) == IF t = "candidate_tags" THEN <<r.candidate_id, r.tag_id>> ELSE r.id

\* The row INSERT builds before the payload is applied: column DEFAULTs
\* (uuid_generate_v4(), now(), false) and NULL everywhere else.
DefaultRow(t, id, at) ==
    CASE t = "organizations" -> [OrganizationRow(id, at) EXCEPT !.name = NULL]
      [] t = "profiles"      -> [ProfileRow(id, NULL, at) EXCEPT !.role = NULL]
      [] t = "candidates"    -> [CandidateRow(id, NULL, at) EXCEPT
                                    !.first_name = NullText, !.last_name = NullText]
      [] t = "activities"    -> [ActivityRow(id, NULL, NULL, at) EXCEPT !.type = NULL]
      [] t = "tags"          -> [TagRow(id, NULL, at) EXCEPT !.name = NULL]
      [] t = "templates"     -> [TemplateRow(id, NULL, at) EXCEPT
                                    !.name = NullText, !.type = NULL, !.content = NULL]
      [] t = "candidate_tags" -> CandidateTagRow(NULL, NULL, at)

\* NOT NULL columns: <<table, column, the column's NULL>>.
NotNullColumns ==
    {<<"organizations", "name", NULL>>,
     <<"candidates", "first_name", NullText>>,
     <<"candidates", "last_name", NullText>>,
     <<"activities", "type", NULL>>,
     <<"tags", "name", NULL>>,
     <<"candidate_tags", "candidate_id", NULL>>,
     <<"candidate_tags", "tag_id", NULL>>,
     <<"templates", "name", NullText>>,
     <<"templates", "type", NULL>>,
     <<"templates", "content", NULL>>}

NotNullHolds(t, r) ==
    \A nn \in NotNullColumns : nn[1] = t => r[nn[2]] # nn[3]

\* CHECK (relationship_type IN ('candidate', 'client', 'both')); a NULL passes a CHECK.
RelationshipTypes == {"candidate", "client", "both"}

\* The candidates table without its CHECK.
CheckConstraintDropped(t, r) == TRUE

CheckConstraint(t, r) ==
    t = "candidates" =>
        (r.relationship_type = NULL \/ r.relationship_type \in RelationshipTypes)

\* The REFERENCES clauses without that of candidate_tags.tag_id.
ForeignKeysWithoutTagReference ==
    {<<"profiles", "organization_id", "organizations">>,
     <<"candidates", "organization_id", "organizations">>,
     <<"activities", "candidate_id", "candidates">>,
     <<"activities", "organization_id", "organizations">>,
     <<"tags", "organization_id", "organizations">>,
     <<"candidate_tags", "candidate_id", "candidates">>,
     <<"templates", "organization_id", "organizations">>}

\* REFERENCES clauses: <<table, column, referenced table>>.
ForeignKeys ==
    {<<"profiles", "organization_id", "organizations">>,
     <<"candidates", "organization_id", "organizations">>,
     <<"activities", "candidate_id", "candidates">>,
     <<"activities", "organization_id", "organizations">>,
     <<"tags", "organization_id", "organizations">>,
     <<"candidate_tags", "candidate_id", "candidates">>,
     <<"candidate_tags", "tag_id", "tags">>,
     <<"templates", "organization_id", "organizations">>}

ForeignKeysHold(d) ==
    \A fk \in ForeignKeys :
        \A r \in d[fk[1]] :
            r[fk[2]] = NULL \/ \E q \in d[fk[3]] : q.id = r[fk[2]]

---------------------------------------------------------------------------
(* Row-level security *)

\* Row security left disabled on templates.
RlsEnabledExceptTemplates == Tables \ {"templates"}

\* ALTER TABLE ... ENABLE ROW LEVEL SECURITY
RlsEnabled == Tables

\* CREATE POLICY: <<table, command, column tested against the caller's organization>>.
\* All policies are TO authenticated.
Policies ==
    {<<"organizations", "SELECT", "id">>,
     <<"profiles", "SELECT", "organization_id">>,
     <<"candidates", "SELECT", "organization_id">>,
     <<"candidates", "INSERT", "organization_id">>,
     <<"candidates", "UPDATE", "organization_id">>}

\* SELECT organization_id FROM profiles WHERE id = auth.uid()
CallerOrgs(d, uid) == {p.organization_id : p \in {q \in d.profiles : q.id = uid}}

\* x IN (sub-select): true only for a non-NULL x equal to a non-NULL element.
SqlIn(x, S) == x # NULL /\ \E s \in S : s # NULL /\ s = x

\* The policy's sub-select without its WHERE id = auth.uid().
PolicyExprAnyProfile(d, uid, pol, r) ==
    SqlIn(r[pol[3]], {p.organization_id : p \in d.profiles})

\* <column> IN (SELECT organization_id FROM profiles WHERE id = auth.uid())
PolicyExpr(d, uid, pol, r) == SqlIn(r[pol[3]], CallerOrgs(d, uid))

\* Does row security let role `role` apply command cmd to row r of table t?
\* Permissive policies are OR-ed; a table with RLS enabled and no policy for
\* the command denies it. The service role bypasses row security.
Permits(d, role, t, cmd, r) ==
    \/ role = ServiceRole
    \/ t \notin RlsEnabled
    \/ \E pol \in Policies : pol[1] = t /\ pol[2] = cmd /\ PolicyExpr(d, role, pol, r)

\* BEFORE UPDATE triggers executing update_updated_at().
UpdatedAtTriggers == {"organizations", "candidates", "templates"}

\* update_updated_at(): NEW.updated_at = now(); RETURN NEW
update_updated_at(t, new, at) ==
    IF t \in UpdatedAtTriggers THEN [new EXCEPT !.updated_at = at] ELSE new

---------------------------------------------------------------------------
(* Statements *)

\* A payload maps the columns a statement supplies to their values.
EmptyPayload == [c \in {} |-> NULL]

\* SET / VALUES: the payload's columns overwrite the row's.
Assign(r, p) == [c \in DOMAIN r |-> IF c \in DOMAIN p THEN p[c] ELSE r[c]]

\* Column constraints of one row.
RowConstraintsHold(t, r) == NotNullHolds(t, r) /\ CheckConstraint(t, r)

\* SELECT * FROM t, as seen by `role`.
SelectStmt(d, role, t) == {r \in d[t] : Permits(d, role, t, "SELECT", r)}

\* uuid_generate_v4() at time at (the clock starts at 2 and advances with
\* every committed change, so no key is returned twice).
FreshId(t, at) == IF FreshIds(t) = <<>> THEN NULL ELSE FreshIds(t)[at - 1]

\* A statement's result: its status ("ok", "rls" for a row-security violation,
\* "constraint" for a constraint violation), the rows it returns, the rows it
\* targeted and the store it leaves.
Result(status, rows, old, d) == [status |-> status, rows |-> rows, old |-> old, db |-> d]

\* INSERT INTO t VALUES (p) RETURNING *. The policy's WITH CHECK is tested on
\* the new row, then the constraints; a failure aborts the statement.
InsertStmt(d, role, t, p, at) ==
    LET new == Assign(DefaultRow(t, FreshId(t, at), at), p)
        d2  == [d EXCEPT ![t] = @ \cup {new}]
    IN  IF ~(Permits(d, role, t, "INSERT", new) /\ Permits(d, role, t, "SELECT", new))
        THEN Result("rls", {}, {}, d)
        ELSE IF ~(/\ \A r \in d[t] : Key(t, r) # Key(t, new)
                  /\ RowConstraintsHold(t, new)
                  /\ ForeignKeysHold(d2))
        THEN Result("constraint", {}, {}, d)
        ELSE Result("ok", {new}, {}, d2)

\* The UPDATE whose policy is not applied to the new row.
UpdateStmtUsingOnly(d, role, t, id, p, at) ==
    LET targets == {r \in d[t] : /\ r.id = id
                                 /\ Permits(d, role, t, "UPDATE", r)
                                 /\ Permits(d, role, t, "SELECT", r)}
        newRows == {update_updated_at(t, Assign(r, p), at) : r \in targets}
        rest    == d[t] \ targets
        d2      == [d EXCEPT ![t] = rest \cup newRows]
    IN  IF targets = {} THEN Result("ok", {}, {}, d)
        ELSE IF ~(/\ \A n \in newRows : \A r \in rest : Key(t, r) # Key(t, n)
                  /\ \A n \in newRows : RowConstraintsHold(t, n)
                  /\ ForeignKeysHold(d2))
        THEN Result("constraint", {}, targets, d)
        ELSE Result("ok", newRows, targets, d2)

\* UPDATE t SET (p) WHERE id = id RETURNING *. Rows the UPDATE (and SELECT)
\* policy's USING hides are not targeted; the BEFORE UPDATE trigger runs on each
\* new row, then the policy's check (WITH CHECK defaults to USING), then the
\* constraints.
UpdateStmt(d, role, t, id, p, at) ==
    LET targets == {r \in d[t] : /\ r.id = id
                                 /\ Permits(d, role, t, "UPDATE", r)
                                 /\ Permits(d, role, t, "SELECT", r)}
        newRows == {update_updated_at(t, Assign(r, p), at) : r \in targets}
        rest    == d[t] \ targets
        d2      == [d EXCEPT ![t] = rest \cup newRows]
    IN  IF targets = {} THEN Result("ok", {}, {}, d)
        ELSE IF ~(\A n \in newRows : Permits(d, role, t, "UPDATE", n))
        THEN Result("rls", {}, targets, d)
        ELSE IF ~(/\ \A n \in newRows : \A r \in rest : Key(t, r) # Key(t, n)
                  /\ \A n \in newRows : RowConstraintsHold(t, n)
                  /\ ForeignKeysHold(d2))
        THEN Result("constraint", {}, targets, d)
        ELSE Result("ok", newRows, targets, d2)

\* DELETE FROM t WHERE <primary key> = id RETURNING *. Rows without a permitting DELETE
\* policy are not targeted; a row still referenced aborts the statement
\* (ON DELETE NO ACTION).
DeleteStmt(d, role, t, id) ==
    LET targets == {r \in d[t] : /\ Key(t, r) = id
                                 /\ Permits(d, role, t, "DELETE", r)
                                 /\ Permits(d, role, t, "SELECT", r)}
        d2      == [d EXCEPT ![t] = @ \ targets]
    IN  IF targets = {} THEN Result("ok", {}, {}, d)
        ELSE IF ~ForeignKeysHold(d2) THEN Result("constraint", {}, targets, d)
        ELSE Result("ok", targets, targets, d2)

---------------------------------------------------------------------------
(* Statement inputs *)

Opt(c, V) == {EmptyPayload} \cup {c :> v : v \in V}
Both(A, B) == {a @@ b : a \in A, b \in B}

InsertPayloads(t) ==
    CASE t = "candidates" ->
            Both({("first_name" :> <<"B", "o">>) @@ ("last_name" :> <<"D", "o", "e">>)},
            Both(Opt("organization_id", Orgs),
                 Opt("relationship_type", {"client", "vendor"})))
      [] t = "templates" ->
            Both({("name" :> <<"Offer">>) @@ ("type" :> "email") @@ ("content" :> "Dear {name}")},
                 Opt("organization_id", Orgs))
      [] t = "tags" ->
            Both({"name" :> "hot"}, Opt("organization_id", Orgs))
      [] t = "activities" ->
            Both({"type" :> "email"}, Opt("organization_id", Orgs))
      [] OTHER -> {}

\* Updates set one column at a time; timestamp 0 is older than every stored row.
UpdatePayloads(t) ==
    CASE t = "candidates" ->
            UNION {Opt("organization_id", Orgs), Opt("relationship_type", {"client", "vendor"}),
                   Opt("created_at", {0}), Opt("updated_at", {0}),
                   Opt("id", {"c2", "c3"})} \ {EmptyPayload}
      [] t = "templates" ->
            UNION {Opt("name", {<<"Intro", "v2">>}), Opt("updated_at", {0})} \ {EmptyPayload}
      [] t = "profiles" ->
            UNION {Opt("role", {"admin"}), Opt("updated_at", {0})} \ {EmptyPayload}
      [] t = "organizations" ->
            UNION {Opt("name", {"globex"}), Opt("updated_at", {0})} \ {EmptyPayload}
      [] OTHER -> {}

---------------------------------------------------------------------------
(* The database *)

\* The store after the migration and provisioning: two tenants, a user in
\* each, a user without organization, and a few rows per tenant.
SeededDb ==
    [organizations  |-> {OrganizationRow(o, 1) : o \in Orgs},
     profiles       |-> {ProfileRow("u1", "O1", 1), ProfileRow("u2", "O2", 1),
                         ProfileRow("u3", NULL, 1)},
     candidates     |-> {[CandidateRow("c1", "O1", 1) EXCEPT !.relationship_type = "candidate"],
                         [CandidateRow("c2", "O2", 1) EXCEPT !.relationship_type = "client"]},
     activities     |-> {ActivityRow("a1", "O1", "c1", 1)},
     tags           |-> {TagRow("g1", "O1", 1)},
     candidate_tags |-> {CandidateTagRow("c1", "g1", 1)},
     templates      |-> {[TemplateRow("t1", "O1", 1) EXCEPT
                             !.variables = JsonObject({<<"name", "first name">>})],
                         TemplateRow("t2", "O2", 1)}]

NoResp ==
    [kind |-> "none", table |-> "none", role |-> "none", status |-> "ok",
     target |-> "none", rows |-> {}, old |-> {}, payload |-> EmptyPayload, at |-> 0]

Respond(kind, t, role, id, res, p) ==
    [kind |-> kind, table |-> t, role |-> role, status |-> res.status,
     target |-> id, rows |-> res.rows, old |-> res.old, payload |-> p, at |-> now]

\* The clock advances with every committed change.
Tick(d, d2) == IF d2 # d THEN now + 1 ELSE now

Select(role, t) ==
    /\ lastResp' = [NoResp EXCEPT !.kind = "select", !.table = t, !.role = role,
                                  !.rows = SelectStmt(db, role, t), !.at = now]
    /\ UNCHANGED <<db, now>>

Insert(role, t, p) ==
    /\ now < MaxTime
    /\ LET res == InsertStmt(db, role, t, p, now)
       IN  /\ db' = res.db
           /\ lastResp' = Respond("insert", t, role, "none", res, p)
           /\ now' = Tick(db, res.db)

Update(role, t, id, p) ==
    /\ now < MaxTime
    /\ LET res == UpdateStmt(db, role, t, id, p, now)
       IN  /\ db' = res.db
           /\ lastResp' = Respond("update", t, role, id, res, p)
           /\ now' = Tick(db, res.db)

Delete(role, t, id) ==
    /\ now < MaxTime
    /\ LET res == DeleteStmt(db, role, t, id)
       IN  /\ db' = res.db
           /\ lastResp' = Respond("delete", t, role, id, res, EmptyPayload)
           /\ now' = Tick(db, res.db)

---------------------------------------------------------------------------
(* The Candidates page: query composition *)

\* Lower-case of a character (ILIKE folds case).
Lower(c) ==
    CASE c = "A" -> "a" [] c = "C" -> "c" [] c = "D" -> "d" [] c = "E" -> "e"
      [] c = "L" -> "l" [] c = "M" -> "m" [] c = "O" -> "o" [] c = "X" -> "x"
      [] OTHER -> c

LowerText(s) == [i \in 1..Len(s) |-> Lower(s[i])]

\* s LIKE pat: % matches any run of characters, _ any one character.
RECURSIVE LikeMatch(_, _)
LikeMatch(s, pat) ==
    IF pat = <<>> THEN s = <<>>
    ELSE IF Head(pat) = "%"
         THEN LikeMatch(s, Tail(pat)) \/ (s # <<>> /\ LikeMatch(Tail(s), pat))
    ELSE IF Head(pat) = "_"
         THEN s # <<>> /\ LikeMatch(Tail(s), Tail(pat))
    ELSE s # <<>> /\ Head(s) = Head(pat) /\ LikeMatch(Tail(s), Tail(pat))

\* v ILIKE pat; NULL ILIKE pat is not true.
ILike(v, pat) == v # NullText /\ LikeMatch(LowerText(v), LowerText(pat))

\* The pattern `%${searchQuery}%`.
SearchPattern(q) == <<"%">> \o q \o <<"%">>

\* if (searchQuery) query.or(first_name.ilike..., last_name.ilike...,
\*                           current_company.ilike..., current_job_title.ilike...)
SearchColumns == {"first_name", "last_name", "current_company", "current_job_title"}

SearchFilter(r, q) ==
    q # <<>> => \E c \in SearchColumns : ILike(r[c], SearchPattern(q))

\* The relationship_type filter applied only to multiple selections.
RelationshipTypeFilterMulti(r, f) ==
    Cardinality(f.relationship_type) > 1 => r.relationship_type \in f.relationship_type

\* if (filters.relationship_type.length > 0) query.in('relationship_type', ...)
RelationshipTypeFilter(r, f) ==
    f.relationship_type # {} => r.relationship_type \in f.relationship_type

\* if (filters.functional_role.length > 0) query.in('functional_role', ...)
FunctionalRoleFilter(r, f) ==
    f.functional_role # {} => r.functional_role \in f.functional_role

\* The is_active_looking filter applied on truthiness: if (filters.is_active_looking).
ActiveLookingFilterTruthy(r, f) ==
    f.is_active_looking = "true" => r.is_active_looking = f.is_active_looking

\* if (filters.is_active_looking !== null) query.eq('is_active_looking', ...)
ActiveLookingFilter(r, f) ==
    f.is_active_looking # "null" => r.is_active_looking = f.is_active_looking

\* containedBy(column, array) sends cd.{a,b}: the array written as a Postgres
\* array literal.
ContainedByOperand(values) == [syntax |-> "pg_array", elems |-> values]

\* The jsonb input function: a literal that is not JSON text is rejected
\* (invalid input syntax for type json).
JsonbIn(lit) ==
    IF lit.syntax = "json" THEN [ok |-> TRUE, value |-> lit.elems]
    ELSE [ok |-> FALSE, value |-> {}]

\* current_location -> 'category': jsonb, NULL when the column is NULL or the
\* object has no such key.
LocationCategory(r) ==
    IF r.current_location.kind = "object" THEN r.current_location.category ELSE NULL

\* jsonb <@ jsonb for a string on the left and an array on the right.
JsonbContainedBy(v, arr) == v # NULL /\ v \in arr

\* if (filters.location_category.length > 0)
\*     query.containedBy('current_location->category', filters.location_category)
LocationFilterFails(f) ==
    f.location_category # {} /\ ~JsonbIn(ContainedByOperand(f.location_category)).ok

LocationFilter(r, f) ==
    f.location_category # {} =>
        JsonbContainedBy(LocationCategory(r), JsonbIn(ContainedByOperand(f.location_category)).value)

\* tags:candidate_tags ( tags ( id, name, color ) ): the embedded association
\* rows of a candidate, each with its tag, as row security shows them.
EmbeddedTags(d, role, r) ==
    {[tags |-> {g \in SelectStmt(d, role, "tags") : g.id = ct.tag_id}] :
        ct \in {x \in SelectStmt(d, role, "candidate_tags") : x.candidate_id = r.id}}

\* The query restarted by the relationship_type filter, which drops the search.
CandidatesQueryRestarted(d, role, q, f) ==
    IF LocationFilterFails(f) THEN [data |-> {}, error |-> TRUE]
    ELSE [data  |-> {r @@ [tags |-> EmbeddedTags(d, role, r)] :
                        r \in {x \in SelectStmt(d, role, "candidates") :
                                  /\ (f.relationship_type = {} => SearchFilter(x, q))
                                  /\ RelationshipTypeFilter(x, f)
                                  /\ FunctionalRoleFilter(x, f)
                                  /\ ActiveLookingFilter(x, f)
                                  /\ LocationFilter(x, f)}},
          error |-> FALSE]

\* The composed query, awaited: {data, error}.
CandidatesQuery(d, role, q, f) ==
    IF LocationFilterFails(f) THEN [data |-> {}, error |-> TRUE]
    ELSE [data  |-> {r @@ [tags |-> EmbeddedTags(d, role, r)] :
                        r \in {x \in SelectStmt(d, role, "candidates") :
                                  /\ SearchFilter(x, q)
                                  /\ RelationshipTypeFilter(x, f)
                                  /\ FunctionalRoleFilter(x, f)
                                  /\ ActiveLookingFilter(x, f)
                                  /\ LocationFilter(x, f)}},
          error |-> FALSE]

\* fetchCandidates() run to completion with search text q and filters f.
fetchCandidates(q, f) ==
    IF user = NULL
    THEN UNCHANGED <<candidates, loading, lastFetch>>
    ELSE LET res == CandidatesQuery(db, user, q, f)
         IN  /\ candidates' = IF res.error THEN candidates ELSE res.data
             /\ loading' = FALSE
             /\ lastFetch' = [status |-> IF res.error THEN "error" ELSE "ok",
                              data |-> res.data]

---------------------------------------------------------------------------
(* Templates and Dashboard: initial state *)

\* useState({name: '', type: 'email', content: '', variables: {}})
BlankForm == [name |-> <<>>, type |-> "email", content |-> "", variables |-> JsonObject({})]

\* Templates as constructed: useState([]), useState(true), useState(''),
\* useState(null), useState(false), useState({...}).
TemplatesInit ==
    /\ templates = <<>>
    /\ templatesLoading = TRUE
    /\ templatesSearch = <<>>
    /\ selectedTemplate = {}
    /\ isEditing = FALSE
    /\ formData = BlankForm
    /\ templatesMounted = FALSE

\* Dashboard as constructed.
DashboardInit ==
    /\ dashboardLoading = TRUE
    /\ dashboardMounted = FALSE
    /\ stats = [totalCandidates |-> 0, activeSearching |-> 0,
                recentActivities |-> 0, pendingActions |-> 0]
    /\ recentActivities = <<>>

\* The app as loaded at "/": Layout is about to render.
LayoutInit ==
    /\ session = "none"
    /\ route = "/"
    /\ layoutMounted = FALSE
    /\ subscribed = FALSE
    /\ lastNav = "none"

AsyncInit ==
    /\ inflight = {}
    /\ lastDone = [kind |-> "none", status |-> "ok"]

---------------------------------------------------------------------------
(* The Candidates page: state *)

SearchTexts == {<<>>, <<"d", "o">>, <<"D", "O">>, <<"z">>, <<"_">>}

LocationCategories == {"remote", "onsite"}

\* FilterState values; relationship_type starts empty and is set from the page.
FilterStates ==
    [relationship_type : {{}},
     functional_role   : {{}, {"eng"}},
     is_active_looking : {"null", "true", "false"},
     location_category : {{}, {"remote"}, LocationCategories}]

RelationshipSelections == {{}, {"client"}, {"candidate", "both"}}

JsonLocation(cat) == [kind |-> "object", city |-> "Oslo", category |-> cat]

\* The name, company and title columns of the stored candidates.
TextVariants ==
    {<<<<"A", "l">>, <<"X", "u">>, NullText, NullText>>,
     <<<<"D", "o", "e">>, <<"X", "u">>, NullText, NullText>>,
     <<<<"A", "l">>, <<"M", "c", "D", "O">>, NullText, NullText>>,
     <<<<"A", "l">>, <<"X", "u">>, <<"d", "o", "t">>, <<"c", "e", "o">>>>,
     <<<<"A", "l">>, <<"X", "u">>, <<"d", "e", "l">>, <<"C", "D", "O">>>>}

\* A stored candidate; its key is its shape.
ShapedCandidate(org, tv, rel, role, act, loc) ==
    [CandidateRow(<<org, tv, rel, role, act, loc>>, org, 1) EXCEPT
        !.first_name = tv[1], !.last_name = tv[2],
        !.current_company = tv[3], !.current_job_title = tv[4],
        !.relationship_type = rel, !.functional_role = role,
        !.is_active_looking = act,
        !.current_location = IF loc = NULL THEN NullJson ELSE JsonLocation(loc)]

\* The stored candidates: in each organization one of every text variant, and
\* in organization O1 one of every combination of the filtered columns.
FetchCandidateRows ==
    {ShapedCandidate(org, tv, "client", "eng", "true", "remote") :
        org \in Orgs, tv \in TextVariants}
    \cup
    {ShapedCandidate("O1", <<<<"D", "o", "e">>, <<"X", "u">>, NullText, NullText>>,
                     rel, role, act, loc) :
        rel \in {"client", "candidate", NULL}, role \in {"eng", NULL},
        act \in {"true", "false", NULL}, loc \in {"remote", "onsite", NULL}}

FetchDb == [SeededDb EXCEPT !.candidates = FetchCandidateRows,
                            !.activities = {}, !.candidate_tags = {}]

\* useEffect(() => fetchCandidates(), [user, searchQuery, filters]) on mount.
Mount ==
    /\ ~mounted
    /\ mounted' = TRUE
    /\ fetchCandidates(searchQuery, filters)
    /\ UNCHANGED <<user, searchQuery, filters>>

\* onChange of the search box, and the effect it triggers.
SetSearchQuery(text) ==
    /\ mounted
    /\ text # searchQuery
    /\ searchQuery' = text
    /\ fetchCandidates(text, filters)
    /\ UNCHANGED <<user, filters, mounted>>

\* onChange of the relationship-type select, and the effect it triggers.
SetRelationshipType(sel) ==
    /\ mounted
    /\ filters' = [filters EXCEPT !.relationship_type = sel]
    /\ fetchCandidates(searchQuery, filters')
    /\ UNCHANGED <<user, searchQuery, mounted>>

InitFetch ==
    /\ db = FetchDb
    /\ now = 2
    /\ lastResp = NoResp
    /\ user \in Users \cup {NULL}
    /\ searchQuery = <<>>
    /\ filters \in FilterStates
    /\ candidates = {}
    /\ loading = TRUE
    /\ mounted = FALSE
    /\ lastFetch = [status |-> "none", data |-> {}]
    /\ client = user
    /\ TemplatesInit
    /\ DashboardInit
    /\ LayoutInit
    /\ AsyncInit

PageMount == Mount /\ UNCHANGED <<dbVars, tplVars, dashVars, layoutVars, asyncVars>>

PageSearch ==
    /\ \E text \in SearchTexts : SetSearchQuery(text)
    /\ UNCHANGED <<dbVars, tplVars, dashVars, layoutVars, asyncVars>>

PageSelectRelationship ==
    /\ \E sel \in RelationshipSelections : SetRelationshipType(sel)
    /\ UNCHANGED <<dbVars, tplVars, dashVars, layoutVars, asyncVars>>

NextFetch == PageMount \/ PageSearch \/ PageSelectRelationship

SpecFetch == InitFetch /\ [][NextFetch]_vars

---------------------------------------------------------------------------
(* The database under statements by authenticated users *)

\* The read fetchCandidates issues, answered by the store.
ReadQueries ==
    {<<q, [f EXCEPT !.relationship_type = rel]>> :
        q \in SearchTexts, f \in FilterStates, rel \in RelationshipSelections}

FetchRead(role, q, f) ==
    /\ lastResp' = [NoResp EXCEPT !.kind = "select", !.table = "candidates", !.role = role,
                                  !.rows = CandidatesQuery(db, role, q, f).data, !.at = now]
    /\ UNCHANGED <<db, now>>

\* Candidates as constructed.
CandidatesInit ==
    /\ searchQuery = <<>>
    /\ filters = [relationship_type |-> {}, functional_role |-> {},
                  is_active_looking |-> "null", location_category |-> {}]
    /\ candidates = {}
    /\ loading = TRUE
    /\ mounted = FALSE
    /\ lastFetch = [status |-> "none", data |-> {}]

UiInit ==
    /\ user = NULL
    /\ client = user
    /\ CandidatesInit
    /\ TemplatesInit
    /\ DashboardInit
    /\ LayoutInit
    /\ AsyncInit

Init ==
    /\ db = SeededDb
    /\ now = 2
    /\ lastResp = NoResp
    /\ UiInit

\* The users issuing writes: one with an organization, one without. User u2
\* is the other tenant, whose rows the writes may aim at.
Writers == {"u1", "u3"}

UserSelect ==
    /\ \E role \in Users, t \in Tables : Select(role, t)
    /\ UNCHANGED uiVars

UserFetchRead ==
    /\ \E role \in Users, qf \in ReadQueries : FetchRead(role, qf[1], qf[2])
    /\ UNCHANGED uiVars

UserInsert ==
    /\ \E role \in Writers, t \in Tables : \E p \in InsertPayloads(t) : Insert(role, t, p)
    /\ UNCHANGED uiVars

UserUpdate ==
    /\ \E role \in Writers, t \in Tables : \E id \in IdPool(t), p \in UpdatePayloads(t) :
          Update(role, t, id, p)
    /\ UNCHANGED uiVars

UserDelete ==
    /\ \E role \in Writers, t \in Tables : \E id \in IdPool(t) : Delete(role, t, id)
    /\ UNCHANGED uiVars

Next == UserSelect \/ UserFetchRead \/ UserInsert \/ UserUpdate \/ UserDelete

Spec == Init /\ [][Next]_vars

---------------------------------------------------------------------------
(* The database under updates by every role *)

\* The service role (bypassing row security) and the users update rows of the
\* tables that carry updated_at.
TouchPayloads(t) == {p \in UpdatePayloads(t) : DOMAIN p \subseteq {"role", "name", "relationship_type", "updated_at"}}

AnyRoleUpdate ==
    /\ \E role \in Roles, t \in UpdatedAtTables : \E id \in IdPool(t), p \in TouchPayloads(t) :
          Update(role, t, id, p)
    /\ UNCHANGED uiVars

NextAdmin == AnyRoleUpdate

SpecAdmin == Init /\ [][NextAdmin]_vars

---------------------------------------------------------------------------
(* Templates: requests *)

\* The async functions that may be suspended at an await at the same time.
MaxInFlight == 2

\* An awaited request: the function suspended, what its closure holds and
\* reads after the await (templates, formData, the template it was called
\* for) and the response.
Op(kind, closure, form, target, status, rows, data) ==
    [kind |-> kind, closure |-> closure, form |-> form, target |-> target,
     status |-> status, rows |-> rows, data |-> data]

\* await: the function is suspended until Resume.
Await(op) ==
    /\ Cardinality(inflight) < MaxInFlight
    /\ inflight' = inflight \cup {op}
    /\ UNCHANGED lastDone

\* order('created_at', {ascending: false}): the orders of rows S with
\* created_at descending; rows of equal created_at come in any order.
OrderedByCreatedAtDesc(S) ==
    LET n == Cardinality(S)
    IN  {sq \in [1..n -> S] :
            /\ \A i, j \in 1..n : i # j => sq[i] # sq[j]
            /\ \A i, j \in 1..n : i < j => sq[i].created_at >= sq[j].created_at}

\* from('templates').select('*'), with ilike('name', `%${searchQuery}%`) if (searchQuery).
TemplatesQuery(d, role, q) ==
    {r \in SelectStmt(d, role, "templates") : q # <<>> => ILike(r.name, SearchPattern(q))}

\* fetchTemplates() up to its await; reached says whether the request reaches
\* the store or fails on the way.
fetchTemplates(q, reached) ==
    IF user = NULL
    THEN UNCHANGED asyncVars
    ELSE IF reached
         THEN \E sq \in OrderedByCreatedAtDesc(TemplatesQuery(db, client, q)) :
                  Await(Op("fetchTemplates", <<>>, BlankForm, {}, "ok", {}, sq))
         ELSE Await(Op("fetchTemplates", <<>>, BlankForm, {}, "error", {}, <<>>))

\* The form's columns without variables.
FormPayloadWithoutVariables(f) ==
    ("name" :> f.name) @@ ("type" :> f.type) @@ ("content" :> f.content)

\* The columns handleCreateTemplate and handleUpdateTemplate send.
FormPayload(f) ==
    ("name" :> f.name) @@ ("type" :> f.type) @@ ("content" :> f.content)
        @@ ("variables" :> f.variables)

\* `${template.name} (Copy)`
CopyName(name) == name \o <<" (Copy)">>

\* The duplicate's columns without variables.
DuplicatePayloadWithoutVariables(t) ==
    ("name" :> CopyName(t.name)) @@ ("type" :> t.type) @@ ("content" :> t.content)

\* The columns handleDuplicateTemplate sends.
DuplicatePayload(t) ==
    ("name" :> CopyName(t.name)) @@ ("type" :> t.type) @@ ("content" :> t.content)
        @@ ("variables" :> t.variables)

\* The error field of a statement's response.
ErrorOf(res) == IF res.status = "ok" THEN "ok" ELSE "error"

\* A write is sent: the store executes statement res, or the request fails.
SendWrite(kind, form, target, res, reached) ==
    /\ now < MaxTime
    /\ IF reached
       THEN /\ db' = res.db
            /\ now' = Tick(db, res.db)
            /\ Await(Op(kind, templates, form, target, ErrorOf(res), res.rows, <<>>))
       ELSE /\ UNCHANGED <<db, now>>
            /\ Await(Op(kind, templates, form, target, "error", {}, <<>>))
    /\ UNCHANGED lastResp

---------------------------------------------------------------------------
(* Templates: handlers *)

formVars == <<selectedTemplate, isEditing, formData>>

\* The one element of a singleton.
The(S) == CHOOSE x \in S : TRUE

\* The list is rendered: the form is closed and loading is over.
ListShown == ~isEditing /\ ~templatesLoading

\* handleCreateTemplate up to its await.
handleCreateTemplate(reached) ==
    /\ SendWrite("create", formData, {},
                 InsertStmt(db, client, "templates", FormPayload(formData), now), reached)

\* handleUpdateTemplate up to its await; if (!selectedTemplate) return.
handleUpdateTemplate(reached) ==
    IF selectedTemplate = {}
    THEN UNCHANGED <<dbVars, asyncVars>>
    ELSE SendWrite("update", formData, selectedTemplate,
                   UpdateStmt(db, client, "templates", The(selectedTemplate).id,
                              FormPayload(formData), now), reached)

\* handleDeleteTemplate(id) up to its await.
handleDeleteTemplate(t, reached) ==
    SendWrite("delete", BlankForm, {t}, DeleteStmt(db, client, "templates", t.id), reached)

\* handleDuplicateTemplate(template) up to its await.
handleDuplicateTemplate(t, reached) ==
    /\ SendWrite("duplicate", BlankForm, {t},
                 InsertStmt(db, client, "templates", DuplicatePayload(t), now), reached)

\* handleEditClick(template)
handleEditClick(t) ==
    /\ selectedTemplate' = {t}
    /\ formData' = [name |-> t.name, type |-> t.type, content |-> t.content,
                    variables |-> t.variables]
    /\ isEditing' = TRUE

\* {...t, ...formData}
Merged(t, f) ==
    [t EXCEPT !.name = f.name, !.type = f.type, !.content = f.content,
              !.variables = f.variables]

\* templates.map(t => t.id === selectedTemplate.id ? {...t, ...formData} : t)
MapEdited(list, id, f) ==
    [i \in 1..Len(list) |-> IF list[i].id = id THEN Merged(list[i], f) ELSE list[i]]

\* templates.filter(t => t.id !== id)
FilterOut(list, id) ==
    LET Keep(t) == t.id # id IN SelectSeq(list, Keep)

\* fetchTemplates() from its await on: setTemplates(data || []) unless the
\* response carries an error; finally setLoading(false).
fetchTemplatesResumed(op) ==
    /\ templates' = IF op.status = "ok" THEN op.data ELSE templates
    /\ templatesLoading' = FALSE
    /\ UNCHANGED formVars

\* handleCreateTemplate that closes the form whatever the response.
handleCreateTemplateResumedClosing(op) ==
    /\ templates' = IF op.status = "ok" THEN <<The(op.rows)>> \o op.closure ELSE templates
    /\ formData' = IF op.status = "ok" THEN BlankForm ELSE formData
    /\ isEditing' = FALSE
    /\ UNCHANGED <<selectedTemplate, templatesLoading>>

\* handleCreateTemplate from its await on.
handleCreateTemplateResumed(op) ==
    IF op.status = "ok"
    THEN /\ templates' = <<The(op.rows)>> \o op.closure
         /\ formData' = BlankForm
         /\ isEditing' = FALSE
         /\ UNCHANGED <<selectedTemplate, templatesLoading>>
    ELSE UNCHANGED <<templates, templatesLoading, formVars>>

\* handleUpdateTemplate from its await on.
handleUpdateTemplateResumed(op) ==
    IF op.status = "ok"
    THEN /\ templates' = MapEdited(op.closure, The(op.target).id, op.form)
         /\ selectedTemplate' = {}
         /\ isEditing' = FALSE
         /\ UNCHANGED <<formData, templatesLoading>>
    ELSE UNCHANGED <<templates, templatesLoading, formVars>>

\* handleDeleteTemplate from its await on.
handleDeleteTemplateResumed(op) ==
    /\ templates' = IF op.status = "ok" THEN FilterOut(op.closure, The(op.target).id)
                    ELSE templates
    /\ UNCHANGED <<templatesLoading, formVars>>

\* handleDuplicateTemplate from its await on.
handleDuplicateTemplateResumed(op) ==
    /\ templates' = IF op.status = "ok" THEN <<The(op.rows)>> \o op.closure ELSE templates
    /\ UNCHANGED <<templatesLoading, formVars>>

---------------------------------------------------------------------------
(* Templates: the component *)

\* <<useAuth().user, the role of the client's requests>>: a signed-in user, a
\* client that bypasses row security, and a visitor who is not signed in.
Sessions == {<<"u1", "u1">>, <<"u1", ServiceRole>>, <<NULL, "anon">>}

notTemplates == <<user, candVars, dashVars, layoutVars>>

\* useEffect(() => { fetchTemplates() }, [user, searchQuery]) on mount.
TemplatesMount ==
    /\ ~templatesMounted
    /\ templatesMounted' = TRUE
    /\ \E reached \in BOOLEAN : fetchTemplates(templatesSearch, reached)
    /\ UNCHANGED <<dbVars, notTemplates, client, templates, templatesLoading,
                   templatesSearch, formVars>>

\* onClick of New Template.
NewTemplateClick ==
    /\ templatesMounted
    /\ selectedTemplate' = {}
    /\ formData' = BlankForm
    /\ isEditing' = TRUE
    /\ UNCHANGED <<dbVars, notTemplates, asyncVars, client, templates, templatesLoading,
                   templatesSearch, templatesMounted>>

\* onChange of the form's content editor: setFormData({...formData, content: value || ''}).
FormEdit ==
    /\ isEditing
    /\ formData' = [formData EXCEPT !.content = "Dear {name}"]
    /\ formData' # formData
    /\ UNCHANGED <<dbVars, notTemplates, asyncVars, client, templates, templatesLoading,
                   templatesSearch, templatesMounted, selectedTemplate, isEditing>>

\* onClick of Cancel.
CancelClick ==
    /\ isEditing
    /\ isEditing' = FALSE
    /\ UNCHANGED <<dbVars, notTemplates, asyncVars, client, templates, templatesLoading,
                   templatesSearch, templatesMounted, selectedTemplate, formData>>

\* onClick of Create Template: selectedTemplate ? handleUpdateTemplate : handleCreateTemplate.
CreateClick ==
    /\ isEditing
    /\ selectedTemplate = {}
    /\ \E reached \in BOOLEAN : handleCreateTemplate(reached)
    /\ UNCHANGED <<notTemplates, tplVars>>

\* onClick of Update Template.
UpdateClick ==
    /\ isEditing
    /\ selectedTemplate # {}
    /\ \E reached \in BOOLEAN : handleUpdateTemplate(reached)
    /\ UNCHANGED <<notTemplates, tplVars>>

\* onClick of a listed template's edit button.
EditClick ==
    /\ ListShown
    /\ \E i \in 1..Len(templates) : handleEditClick(templates[i])
    /\ UNCHANGED <<dbVars, notTemplates, asyncVars, client, templates, templatesLoading,
                   templatesSearch, templatesMounted>>

\* onClick of a listed template's copy button.
DuplicateClick ==
    /\ ListShown
    /\ \E i \in 1..Len(templates), reached \in BOOLEAN :
          handleDuplicateTemplate(templates[i], reached)
    /\ UNCHANGED <<notTemplates, tplVars>>

\* onClick of a listed template's delete button.
DeleteClick ==
    /\ ListShown
    /\ \E i \in 1..Len(templates), reached \in BOOLEAN :
          handleDeleteTemplate(templates[i], reached)
    /\ UNCHANGED <<notTemplates, tplVars>>

\* The response arrives and the suspended function runs to its end.
TemplatesResume ==
    /\ \E op \in inflight :
          /\ op.kind \in {"fetchTemplates", "create", "update", "delete", "duplicate"}
          /\ inflight' = inflight \ {op}
          /\ lastDone' = [kind |-> op.kind, status |-> op.status]
          /\ CASE op.kind = "fetchTemplates" -> fetchTemplatesResumed(op)
               [] op.kind = "create"         -> handleCreateTemplateResumed(op)
               [] op.kind = "update"         -> handleUpdateTemplateResumed(op)
               [] op.kind = "delete"         -> handleDeleteTemplateResumed(op)
               [] op.kind = "duplicate"      -> handleDuplicateTemplateResumed(op)
    /\ UNCHANGED <<dbVars, notTemplates, client, templatesSearch, templatesMounted>>

\* The store the component runs against: organization O1's templates.
TemplatesDb == [SeededDb EXCEPT !.templates = {r \in @ : r.organization_id = "O1"}]

InitTemplates ==
    /\ db = TemplatesDb
    /\ now = 2
    /\ lastResp = NoResp
    /\ \E ss \in Sessions : user = ss[1] /\ client = ss[2]
    /\ CandidatesInit
    /\ TemplatesInit
    /\ DashboardInit
    /\ LayoutInit
    /\ AsyncInit

NextTemplates ==
    \/ TemplatesMount \/ NewTemplateClick \/ FormEdit \/ CancelClick
    \/ CreateClick \/ UpdateClick \/ EditClick \/ DuplicateClick \/ DeleteClick
    \/ TemplatesResume

SpecTemplates == InitTemplates /\ [][NextTemplates]_vars

---------------------------------------------------------------------------
(* Tags and their associations, maintained by the service role *)

\* The tables reached by a tag's or a candidate's references.
TagTables == {"tags", "candidate_tags", "candidates", "activities"}

\* INSERT INTO candidate_tags (candidate_id, tag_id).
CandidateTagPayloads ==
    {("candidate_id" :> ct[1]) @@ ("tag_id" :> ct[2]) : ct \in IdPool("candidate_tags")}

\* Users and the service role create tags and tag candidates.
TagInsert ==
    /\ \E role \in {"u1", ServiceRole} :
          \/ \E p \in InsertPayloads("tags") : Insert(role, "tags", p)
          \/ \E p \in CandidateTagPayloads : Insert(role, "candidate_tags", p)
    /\ UNCHANGED uiVars

\* Users and the service role delete tags, associations, candidates and activities.
TagDelete ==
    /\ \E role \in {"u1", ServiceRole}, t \in TagTables : \E id \in IdPool(t) :
          Delete(role, t, id)
    /\ UNCHANGED uiVars

NextTags == TagInsert \/ TagDelete

SpecTags == Init /\ [][NextTags]_vars

---------------------------------------------------------------------------
(* Candidates: fetches that overlap *)

notCandidates == <<user, tplVars, dashVars, layoutVars>>

\* fetchCandidates() up to its await: the query is built from the search text
\* and filters of the render that ran the effect; reached says whether the
\* request reaches the store or fails on the way.
fetchCandidatesCalled(q, f, reached) ==
    IF user = NULL
    THEN UNCHANGED asyncVars
    ELSE LET res == CandidatesQuery(db, user, q, f)
         IN  IF reached /\ ~res.error
             THEN Await(Op("fetchCandidates", <<>>, BlankForm, {}, "ok", {}, res.data))
             ELSE Await(Op("fetchCandidates", <<>>, BlankForm, {}, "error", {}, {}))

\* fetchCandidates() with setLoading(false) after setCandidates instead of in
\* a finally block.
fetchCandidatesResumedWithoutFinally(op) ==
    /\ candidates' = IF op.status = "ok" THEN op.data ELSE candidates
    /\ loading' = IF op.status = "ok" THEN FALSE ELSE loading
    /\ lastFetch' = [status |-> op.status, data |-> op.data]

\* fetchCandidates() from its await on: setCandidates(data || []) unless the
\* response carries an error; finally setLoading(false).
fetchCandidatesResumed(op) ==
    /\ candidates' = IF op.status = "ok" THEN op.data ELSE candidates
    /\ loading' = FALSE
    /\ lastFetch' = [status |-> op.status, data |-> op.data]

\* useEffect(() => { fetchCandidates() }, [user, searchQuery, filters]) on mount.
CandidatesMount(reached) ==
    /\ ~mounted
    /\ mounted' = TRUE
    /\ fetchCandidatesCalled(searchQuery, filters, reached)
    /\ UNCHANGED <<dbVars, notCandidates, searchQuery, filters, candidates, loading, lastFetch>>

\* onChange of the search box, and the effect the new text triggers.
CandidatesSearch(text, reached) ==
    /\ mounted
    /\ text # searchQuery
    /\ searchQuery' = text
    /\ fetchCandidatesCalled(text, filters, reached)
    /\ UNCHANGED <<dbVars, notCandidates, filters, candidates, loading, mounted, lastFetch>>

\* onChange of the relationship-type select, and the effect it triggers.
CandidatesSelectRelationship(sel, reached) ==
    /\ mounted
    /\ sel # filters.relationship_type
    /\ filters' = [filters EXCEPT !.relationship_type = sel]
    /\ fetchCandidatesCalled(searchQuery, filters', reached)
    /\ UNCHANGED <<dbVars, notCandidates, searchQuery, candidates, loading, mounted, lastFetch>>

\* A response arrives and fetchCandidates runs to its end; responses arrive
\* in any order.
CandidatesResume ==
    /\ \E op \in inflight :
          /\ op.kind = "fetchCandidates"
          /\ inflight' = inflight \ {op}
          /\ lastDone' = [kind |-> op.kind, status |-> op.status]
          /\ fetchCandidatesResumed(op)
    /\ UNCHANGED <<dbVars, notCandidates, searchQuery, filters, mounted>>

\* The page against a store that answers every request.
RaceSearchTexts == {<<>>, <<"d", "o">>, <<"z">>}

RaceMount == CandidatesMount(TRUE)

RaceSearch == \E text \in RaceSearchTexts : CandidatesSearch(text, TRUE)

RaceSelectRelationship ==
    \E sel \in RelationshipSelections : CandidatesSelectRelationship(sel, TRUE)

InitRace ==
    /\ db = FetchDb
    /\ now = 2
    /\ lastResp = NoResp
    /\ user \in {"u1", NULL}
    /\ client = user
    /\ CandidatesInit
    /\ TemplatesInit
    /\ DashboardInit
    /\ LayoutInit
    /\ AsyncInit

NextRace == RaceMount \/ RaceSearch \/ RaceSelectRelationship \/ CandidatesResume

SpecRace == InitRace /\ [][NextRace]_vars

---------------------------------------------------------------------------
(* Dashboard *)

notDashboard == <<user, candVars, tplVars, layoutVars>>

\* from('profiles').select('organization_id').eq('id', user.id).single():
\* data is the organization_id of the one row returned, null otherwise.
ProfileQuery(d, role, uid) ==
    LET rows == {r \in SelectStmt(d, role, "profiles") : r.id = uid}
    IN  IF Cardinality(rows) = 1 THEN The(rows).organization_id ELSE NULL

\* select('*', {count: 'exact', head: true}).eq('organization_id', org)
\* [.eq('is_active_looking', true)]: {count}.
CountQuery(d, role, org, activeOnly) ==
    Cardinality({r \in SelectStmt(d, role, "candidates") :
                    /\ r.organization_id = org
                    /\ activeOnly => r.is_active_looking = "true"})

\* candidates (id, first_name, last_name) embedded in an activity: the
\* referenced candidate when the caller can read it, else null (the empty set).
EmbeddedCandidate(d, role, a) ==
    {[id |-> r.id, first_name |-> r.first_name, last_name |-> r.last_name] :
        r \in {x \in SelectStmt(d, role, "candidates") : x.id = a.candidate_id}}

\* limit(n)
Limit(sq, n) == SubSeq(sq, 1, IF Len(sq) < n THEN Len(sq) ELSE n)

\* The activities query: eq('organization_id', org), order('created_at',
\* {ascending: false}), limit(5), each row with its embedded candidate.
ActivitiesQuery(d, role, org) ==
    {Limit(sq, 5) :
        sq \in OrderedByCreatedAtDesc(
                  {[id |-> a.id, type |-> a.type, created_at |-> a.created_at,
                    candidates |-> EmbeddedCandidate(d, role, a)] :
                      a \in {x \in SelectStmt(d, role, "activities") :
                                x.organization_id = org}})}

\* A response of the client: {count | data, error}; count and data are null
\* (0, the empty list) when error is set.
Answer(reached, value, none) ==
    IF reached THEN [value |-> value, error |-> FALSE] ELSE [value |-> none, error |-> TRUE]

\* fetchDashboardData() up to its first await.
fetchDashboardData(reached) ==
    IF user = NULL
    THEN UNCHANGED asyncVars
    ELSE Await(Op("profile", <<>>, BlankForm, {}, "ok", {},
                  IF reached THEN ProfileQuery(db, client, user) ELSE NULL))

\* fetchDashboardData() from its first await: return (through finally) when
\* there is no profile or no organization, else up to await Promise.all([...]).
fetchDashboardDataProfileResumed(op) ==
    IF op.data = NULL
    THEN /\ inflight' = inflight \ {op}
         /\ lastDone' = [kind |-> "fetchDashboardData", status |-> "returned"]
         /\ dashboardLoading' = FALSE
         /\ UNCHANGED <<stats, recentActivities>>
    ELSE /\ \E r1, r2, r3 \in BOOLEAN : \E acts \in ActivitiesQuery(db, client, op.data) :
              inflight' = (inflight \ {op}) \cup
                  {Op("stats", <<>>, BlankForm, {}, "ok", {},
                      [totalCandidates |-> Answer(r1, CountQuery(db, client, op.data, FALSE), 0),
                       activeSearching |-> Answer(r2, CountQuery(db, client, op.data, TRUE), 0),
                       activities      |-> Answer(r3, acts, <<>>)])}
         /\ UNCHANGED <<lastDone, dashboardLoading, stats, recentActivities>>

\* activities?.map(activity => ({..., candidateId: activity.candidates.id, ...}))
\* throws when an activity has no embedded candidate.
TransformThrows(acts) == \E i \in 1..Len(acts) : acts[i].candidates = {}

Transformed(acts) ==
    [i \in 1..Len(acts) |->
        [id |-> acts[i].id, candidateId |-> The(acts[i].candidates).id,
         type |-> acts[i].type, createdAt |-> acts[i].created_at]]

\* fetchDashboardData() from await Promise.all on: transform, setStats,
\* setRecentActivities; a throw is caught; finally setLoading(false).
fetchDashboardDataStatsResumed(op) ==
    LET acts == op.data.activities.value
    IN  /\ inflight' = inflight \ {op}
        /\ dashboardLoading' = FALSE
        /\ IF TransformThrows(acts)
           THEN /\ lastDone' = [kind |-> "fetchDashboardData", status |-> "error"]
                /\ UNCHANGED <<stats, recentActivities>>
           ELSE /\ lastDone' = [kind |-> "fetchDashboardData", status |-> "ok"]
                /\ stats' = [totalCandidates  |-> op.data.totalCandidates.value,
                             activeSearching  |-> op.data.activeSearching.value,
                             recentActivities |-> Len(acts),
                             pendingActions   |-> 1]
                /\ recentActivities' = Transformed(acts)

---------------------------------------------------------------------------
(* The pages when fetches fail *)

\* <Routes>: one page is rendered at a time.
NoPageOpen == ~dashboardMounted /\ ~mounted /\ ~templatesMounted

DashboardMount ==
    /\ NoPageOpen
    /\ dashboardMounted' = TRUE
    /\ \E reached \in BOOLEAN : fetchDashboardData(reached)
    /\ UNCHANGED <<dbVars, notDashboard, dashboardLoading, stats, recentActivities>>

DashboardResume ==
    /\ \E op \in inflight :
          \/ op.kind = "profile" /\ fetchDashboardDataProfileResumed(op)
          \/ op.kind = "stats" /\ fetchDashboardDataStatsResumed(op)
    /\ UNCHANGED <<dbVars, notDashboard, dashboardMounted>>

LoadingCandidatesMount == NoPageOpen /\ \E reached \in BOOLEAN : CandidatesMount(reached)

LoadingCandidatesSearch ==
    \E text \in RaceSearchTexts, reached \in BOOLEAN : CandidatesSearch(text, reached)

LoadingTemplatesMount == NoPageOpen /\ TemplatesMount

TemplateSearchTexts == {<<>>, <<"i", "n">>}

\* onChange of the templates search box, and the effect the new text triggers.
TemplatesSearch ==
    /\ templatesMounted
    /\ \E text \in TemplateSearchTexts, reached \in BOOLEAN :
          /\ text # templatesSearch
          /\ templatesSearch' = text
          /\ fetchTemplates(text, reached)
    /\ UNCHANGED <<dbVars, notTemplates, client, templates, templatesLoading,
                   templatesMounted, formVars>>

\* The store at the time a page opens: as seeded, with an activity that names
\* no candidate, or with u1's profile missing.
LoadingDbs ==
    {SeededDb,
     [SeededDb EXCEPT !.activities = @ \cup {ActivityRow("a2", "O1", NULL, 1)}],
     [SeededDb EXCEPT !.profiles = {r \in @ : r.id # "u1"}]}

LoadingFilters ==
    {[relationship_type |-> {}, functional_role |-> {},
      is_active_looking |-> "null", location_category |-> loc] : loc \in {{}, {"remote"}}}

InitLoading ==
    /\ db \in LoadingDbs
    /\ now = 2
    /\ lastResp = NoResp
    /\ \E ss \in {<<"u1", "u1">>, <<"u1", ServiceRole>>, <<"u3", "u3">>, <<NULL, "anon">>} :
          user = ss[1] /\ client = ss[2]
    /\ searchQuery = <<>>
    /\ filters \in LoadingFilters
    /\ candidates = {}
    /\ loading = TRUE
    /\ mounted = FALSE
    /\ lastFetch = [status |-> "none", data |-> {}]
    /\ TemplatesInit
    /\ DashboardInit
    /\ LayoutInit
    /\ AsyncInit

LoadingResume == DashboardResume \/ CandidatesResume \/ TemplatesResume

NextLoading ==
    \/ DashboardMount \/ LoadingCandidatesMount \/ LoadingCandidatesSearch
    \/ LoadingTemplatesMount \/ TemplatesSearch
    \/ DashboardResume \/ CandidatesResume \/ TemplatesResume

\* Every request is answered or fails in the end.
SpecLoading == InitLoading /\ [][NextLoading]_vars /\ WF_vars(LoadingResume)

---------------------------------------------------------------------------
(* Layout *)

notLayout == <<dbVars, user, candVars, tplVars, dashVars>>

\* <Route path="/auth"> and the routes rendered inside <Layout>.
LayoutRoutes == {"/", "/candidates", "/templates", "/settings"}

\* The effect's cleanup that leaves the callback registered.
LayoutCleanupWithoutUnsubscribe == UNCHANGED subscribed

\* return () => { subscription.unsubscribe() }
LayoutCleanup == subscribed' = FALSE

\* navigate(path) called by `by`: the router renders the route; leaving the
\* routes of Layout unmounts it and runs its effect's cleanup.
Navigate(path, by) ==
    /\ route' = path
    /\ lastNav' = by
    /\ IF layoutMounted /\ path \notin LayoutRoutes
       THEN layoutMounted' = FALSE /\ LayoutCleanup
       ELSE UNCHANGED <<layoutMounted, subscribed>>

\* checkAuth() up to its await: supabase.auth.getSession().
checkAuth == Await(Op("getSession", <<>>, BlankForm, {}, "ok", {}, session))

\* checkAuth() from its await on: if (!session) navigate('/auth').
checkAuthResumed(op) ==
    IF op.data = "none"
    THEN Navigate("/auth", "checkAuth")
    ELSE UNCHANGED <<route, layoutMounted, subscribed, lastNav>>

\* The callback given to onAuthStateChange.
AuthCallback(event) ==
    IF event = "SIGNED_OUT"
    THEN Navigate("/auth", "onAuthStateChange")
    ELSE UNCHANGED <<route, layoutMounted, subscribed, lastNav>>

\* supabase.auth notifies the callbacks registered at the time of the event.
Notify(event) ==
    IF subscribed
    THEN AuthCallback(event)
    ELSE UNCHANGED <<route, layoutMounted, subscribed, lastNav>>

\* Layout renders and its effect runs: checkAuth(), then onAuthStateChange(...).
LayoutMount ==
    /\ ~layoutMounted
    /\ route \in LayoutRoutes
    /\ layoutMounted' = TRUE
    /\ checkAuth
    /\ subscribed' = TRUE
    /\ UNCHANGED <<notLayout, session, route, lastNav>>

\* The effect runs again because navigate, its dependency, has changed:
\* cleanup, checkAuth(), onAuthStateChange(...).
LayoutEffectAgain ==
    /\ layoutMounted
    /\ checkAuth
    /\ subscribed' = TRUE
    /\ UNCHANGED <<notLayout, session, route, layoutMounted, lastNav>>

\* onClick of a sidebar button: navigate(path).
SidebarClick ==
    /\ layoutMounted
    /\ \E path \in LayoutRoutes : path # route /\ Navigate(path, "sidebar")
    /\ UNCHANGED <<notLayout, session, asyncVars>>

\* handleSignOut up to its await: supabase.auth.signOut().
handleSignOut ==
    /\ layoutMounted
    /\ \E reached \in BOOLEAN :
          Await(Op("signOut", <<>>, BlankForm, {}, IF reached THEN "ok" ELSE "error", {}, <<>>))
    /\ UNCHANGED <<notLayout, layoutVars>>

\* signOut() answered: the session is removed and SIGNED_OUT is notified.
signOutResumed(op) ==
    IF op.status = "ok" /\ session # "none"
    THEN session' = "none" /\ Notify("SIGNED_OUT")
    ELSE UNCHANGED layoutVars

\* A response arrives and the suspended function of Layout runs to its end.
LayoutResume ==
    /\ \E op \in inflight :
          /\ op.kind \in {"getSession", "signOut"}
          /\ inflight' = inflight \ {op}
          /\ lastDone' = [kind |-> op.kind, status |-> op.status]
          /\ IF op.kind = "getSession"
             THEN checkAuthResumed(op) /\ UNCHANGED session
             ELSE signOutResumed(op)
    /\ UNCHANGED notLayout

\* The session ends elsewhere (another tab, expiry): SIGNED_OUT is notified.
SessionEnds ==
    /\ session # "none"
    /\ session' = "none"
    /\ Notify("SIGNED_OUT")
    /\ UNCHANGED <<notLayout, asyncVars>>

\* The user signs in on <Auth />: SIGNED_IN is notified.
SessionBegins ==
    /\ session = "none"
    /\ session' = "u1"
    /\ Notify("SIGNED_IN")
    /\ UNCHANGED <<notLayout, asyncVars>>

\* The browser's location changes from /auth to a route of Layout.
OpenLayoutRoute ==
    /\ route \notin LayoutRoutes
    /\ Navigate("/", "browser")
    /\ UNCHANGED <<notLayout, session, asyncVars>>

InitLayout ==
    /\ db = SeededDb
    /\ now = 2
    /\ lastResp = NoResp
    /\ user = NULL
    /\ client = user
    /\ CandidatesInit
    /\ TemplatesInit
    /\ DashboardInit
    /\ session \in {"none", "u1"}
    /\ route = "/"
    /\ layoutMounted = FALSE
    /\ subscribed = FALSE
    /\ lastNav = "none"
    /\ AsyncInit

NextLayout ==
    \/ LayoutMount \/ LayoutEffectAgain \/ SidebarClick \/ handleSignOut
    \/ LayoutResume \/ SessionEnds \/ SessionBegins \/ OpenLayoutRoute

SpecLayout == InitLayout /\ [][NextLayout]_vars

---------------------------------------------------------------------------
(* Properties of the database *)

\* The organization of an authenticated caller's profile (NULL when none).
OrgOf(role) == CHOOSE o \in Orgs \cup {NULL} : \E p \in db.profiles : p.id = role /\ p.organization_id = o

\* The organization_id an INSERT payload gives its row.
PayloadOrg(p) == IF "organization_id" \in DOMAIN p THEN p["organization_id"] ELSE NULL

\* C1: every row an authenticated caller's read of an organization-scoped
\* table returns, the rows and embedded tags of fetchCandidates' read included,
\* has the organization_id of the caller's profile; a caller whose profile has
\* no organization is returned nothing.
C1_ReadsAreOrgScoped ==
    (/\ lastResp.kind = "select"
     /\ lastResp.table \in OrgScopedTables
     /\ lastResp.role \in Users)
    => \A r \in lastResp.rows :
          /\ OrgOf(lastResp.role) # NULL
          /\ r.organization_id = OrgOf(lastResp.role)
          /\ "tags" \in DOMAIN r =>
                \A e \in r.tags : \A g \in e.tags : g.organization_id = OrgOf(lastResp.role)

\* C1 witness: fetchCandidates' read returned rows to a user while the store
\* holds a candidate of another organization.
C1_Witness ==
    /\ lastResp.kind = "select"
    /\ lastResp.table = "candidates"
    /\ lastResp.role \in Users
    /\ \E r \in lastResp.rows : "tags" \in DOMAIN r
    /\ \E c \in db.candidates : c.organization_id # OrgOf(lastResp.role)

\* C2: on every organization-scoped table an authenticated caller's insert is
\* permitted exactly when the new row's organization_id is the caller's
\* organization, and an update exactly when the target row's organization_id
\* is (statements that break no constraint).
C2_WritesPermittedIffOwnOrg ==
    /\ (/\ lastResp.kind = "insert"
        /\ lastResp.table \in OrgScopedTables
        /\ lastResp.role \in Users
        /\ lastResp.status # "constraint")
       => (lastResp.status = "ok"
             <=> (OrgOf(lastResp.role) # NULL /\ PayloadOrg(lastResp.payload) = OrgOf(lastResp.role)))
    /\ (/\ lastResp.kind = "update"
        /\ lastResp.table \in OrgScopedTables
        /\ lastResp.role \in Users
        /\ lastResp.status # "constraint")
       => \A r \in db[lastResp.table] :
             (r.id = lastResp.target /\ lastResp.rows = {})
                => ~(OrgOf(lastResp.role) # NULL /\ r.organization_id = OrgOf(lastResp.role))

\* C3: a delete issued by an authenticated caller on any table leaves the
\* stored rows as they were and removes no row.
C3_DeleteRejected ==
    [][(lastResp'.kind = "delete" /\ lastResp'.role \in Users)
          => (db' = db /\ lastResp'.rows = {})]_vars

\* C3 witness: a user's delete of a template of their own organization has
\* been answered and the template is still stored.
C3_Witness ==
    /\ lastResp.kind = "delete"
    /\ lastResp.role \in Users
    /\ lastResp.table = "templates"
    /\ lastResp.status = "ok"
    /\ \E r \in db.templates : r.id = lastResp.target /\ r.organization_id = OrgOf(lastResp.role)

\* C4: every successful update of a row of a table with updated_at leaves
\* updated_at at the time of the update, and never below its previous value.
C4_UpdatedAtIsTimeOfUpdate ==
    (/\ lastResp.kind = "update"
     /\ lastResp.table \in UpdatedAtTables
     /\ lastResp.status = "ok")
    => /\ \A n \in lastResp.rows : n.updated_at = lastResp.at
       /\ \A n \in lastResp.rows : \A o \in lastResp.old : n.updated_at >= o.updated_at

\* C5: an update a caller is permitted to make leaves created_at as it was.
C5_CreatedAtNeverAltered ==
    (/\ lastResp.kind = "update"
     /\ lastResp.table \in CreatedAtTables
     /\ lastResp.role \in Users
     /\ lastResp.status = "ok")
    => \A n \in lastResp.rows : \A o \in lastResp.old : n.created_at = o.created_at

\* The store without the rows that belong to organizations other than the
\* caller's (and without the association rows of removed candidates and tags).
WithoutOtherTenants(d, role) ==
    LET own(t) == {r \in d[t] : r.organization_id = NULL
                                  \/ r.organization_id \in CallerOrgs(d, role)}
    IN  [d EXCEPT !.candidates = own("candidates"),
                  !.activities = {a \in own("activities") :
                                     a.candidate_id = NULL
                                     \/ \E c \in own("candidates") : c.id = a.candidate_id},
                  !.tags = own("tags"),
                  !.templates = own("templates"),
                  !.candidate_tags = {ct \in d.candidate_tags :
                                         /\ \E c \in own("candidates") : c.id = ct.candidate_id
                                         /\ \E g \in own("tags") : g.id = ct.tag_id}]

\* What the caller sees of a statement: its status and the rows returned.
Seen(res) == <<res.status, res.rows>>

\* C6: every read, update and delete gives the caller the same outcome on the
\* store as on the store without the other tenants' rows.
C6_OtherTenantsInvisible ==
    \A role \in Users : \A t \in OrgScopedTables :
        LET d2 == WithoutOtherTenants(db, role)
        IN  /\ SelectStmt(db, role, t) = SelectStmt(d2, role, t)
            /\ \A id \in IdPool(t) :
                  /\ Seen(DeleteStmt(db, role, t, id)) = Seen(DeleteStmt(d2, role, t, id))
                  /\ \A p \in UpdatePayloads(t) :
                        Seen(UpdateStmt(db, role, t, id, p, now))
                           = Seen(UpdateStmt(d2, role, t, id, p, now))

---------------------------------------------------------------------------
(* Properties of fetchCandidates *)

\* sub occurs in s as a contiguous run.
Contains(s, sub) ==
    \E i \in 0..(Len(s) - Len(sub)) : SubSeq(s, i + 1, i + Len(sub)) = sub

\* The text occurs, ignoring case, in one of the four searched columns.
TextOccurs(r, q) ==
    \E c \in SearchColumns : r[c] # NullText /\ Contains(LowerText(r[c]), LowerText(q))

\* The candidates row security shows the signed-in user.
VisibleCandidates == SelectStmt(db, user, "candidates")

Ids(rows) == {r.id : r \in rows}

NoFilterSet(f) ==
    /\ f.relationship_type = {} /\ f.functional_role = {}
    /\ f.is_active_looking = "null" /\ f.location_category = {}

\* C7: with a non-empty search text only candidates in which the text occurs
\* (ignoring case) in a searched column are returned, and with no filter set
\* all of them; an empty text restricts nothing.
C7_SearchIsSubstringMatch ==
    lastFetch.status = "ok" =>
        /\ searchQuery # <<>> => \A r \in lastFetch.data : TextOccurs(r, searchQuery)
        /\ (searchQuery # <<>> /\ NoFilterSet(filters)) =>
              \A r \in VisibleCandidates :
                  TextOccurs(r, searchQuery) => r.id \in Ids(lastFetch.data)
        /\ (searchQuery = <<>> /\ NoFilterSet(filters)) =>
              Ids(lastFetch.data) = Ids(VisibleCandidates)

\* The rows the query returns with one of its filters cleared.
DataWithout(field, cleared) ==
    CandidatesQuery(db, user, searchQuery, [filters EXCEPT ![field] = cleared]).data

\* C8: a non-empty relationship_type selection keeps exactly the otherwise
\* matching candidates whose relationship_type is selected, an empty one
\* restricts nothing; likewise functional_role.
C8_InclusionFilters ==
    lastFetch.status = "ok" =>
        /\ lastFetch.data =
              {r \in DataWithout("relationship_type", {}) :
                  filters.relationship_type = {}
                  \/ r.relationship_type \in filters.relationship_type}
        /\ lastFetch.data =
              {r \in DataWithout("functional_role", {}) :
                  filters.functional_role = {}
                  \/ r.functional_role \in filters.functional_role}

\* C8 witness: a fetch with both selections non-empty returned candidates and
\* left out candidates that match everything but one of the two selections.
C8_Witness ==
    /\ lastFetch.status = "ok"
    /\ filters.relationship_type # {}
    /\ filters.functional_role # {}
    /\ lastFetch.data # {}
    /\ DataWithout("relationship_type", {}) \ lastFetch.data # {}
    /\ DataWithout("functional_role", {}) \ lastFetch.data # {}

\* C9: a non-empty location_category selection makes the displayed list
\* exactly the otherwise matching candidates whose location category is
\* selected.
C9_LocationInclusion ==
    (lastFetch.status # "none" /\ filters.location_category # {}) =>
        /\ lastFetch.status = "ok"
        /\ Ids(candidates) =
              Ids({r \in DataWithout("location_category", {}) :
                      LocationCategory(r) \in filters.location_category})

\* C10: is_active_looking set to true or false keeps exactly the otherwise
\* matching candidates with that value; unset, it restricts nothing.
C10_ActiveLookingTriState ==
    lastFetch.status = "ok" =>
        lastFetch.data =
            {r \in DataWithout("is_active_looking", "null") :
                filters.is_active_looking = "null"
                \/ r.is_active_looking = filters.is_active_looking}

\* C10 witness: a fetch with is_active_looking = false returned candidates and
\* left out an otherwise matching candidate who is looking.
C10_Witness ==
    /\ lastFetch.status = "ok"
    /\ filters.is_active_looking = "false"
    /\ lastFetch.data # {}
    /\ \E r \in DataWithout("is_active_looking", "null") : r.is_active_looking = "true"

\* A FilterState with no filter set.
NoFilters ==
    [relationship_type |-> {}, functional_role |-> {},
     is_active_looking |-> "null", location_category |-> {}]

\* The current search text and each current filter, taken alone.
RestrictionsAlone ==
    {<<searchQuery, NoFilters>>}
    \cup {<<<<>>, [NoFilters EXCEPT ![c] = filters[c]]>> : c \in DOMAIN NoFilters}

AloneQuery(qf) == CandidatesQuery(db, user, qf[1], qf[2])

---------------------------------------------------------------------------
(* Properties of the candidates constraints and policies *)

\* The relationship_type a write supplies, NULL when it supplies none.
PayloadRelationshipType(p) ==
    IF "relationship_type" \in DOMAIN p THEN p["relationship_type"] ELSE NULL

\* The response is to a write of candidates.
CandidateWrite(resp) ==
    resp.kind \in {"insert", "update"} /\ resp.table = "candidates"

\* C14 as claimed: a write of a candidate whose relationship_type is not one
\* of candidate, client, both stores nothing, and every stored candidate's
\* relationship_type is one of the three.
C14_RelationshipTypeOneOfThree ==
    /\ (CandidateWrite(lastResp)
          /\ (lastResp.kind = "insert" \/ "relationship_type" \in DOMAIN lastResp.payload)
          /\ PayloadRelationshipType(lastResp.payload) \notin RelationshipTypes)
        => lastResp.rows = {}
    /\ \A c \in db.candidates : c.relationship_type \in RelationshipTypes

\* C14 amended: a write that supplies a relationship_type other than
\* candidate, client, both is rejected and leaves the store as it was, and
\* every stored candidate's relationship_type is one of the three or NULL.
C14_CheckConstraintRejects ==
    /\ [](\A c \in db.candidates :
            c.relationship_type = NULL \/ c.relationship_type \in RelationshipTypes)
    /\ [][(CandidateWrite(lastResp')
            /\ PayloadRelationshipType(lastResp'.payload) \notin RelationshipTypes \cup {NULL})
          => /\ db' = db
             /\ lastResp'.rows = {}
             /\ (lastResp'.kind = "insert" \/ lastResp'.old # {}) => lastResp'.status # "ok"]_vars

\* C14 witness: an update by a user of the row's organization that supplies
\* relationship_type = vendor was answered with a constraint violation, and
\* the row still has its relationship_type.
C14_Witness ==
    /\ CandidateWrite(lastResp)
    /\ lastResp.kind = "update"
    /\ PayloadRelationshipType(lastResp.payload) = "vendor"
    /\ lastResp.status = "constraint"
    /\ \E c \in db.candidates : c.id = lastResp.target /\ c.relationship_type = "candidate"

\* C18: every candidates row an authenticated caller's insert or update
\* stores has the organization_id of the caller's profile; a write that would
\* give a row another organization's id is rejected and stores nothing.
C18_NoCrossTenantWrite ==
    (CandidateWrite(lastResp) /\ lastResp.role \in Users) =>
        /\ \A r \in lastResp.rows :
              OrgOf(lastResp.role) # NULL /\ r.organization_id = OrgOf(lastResp.role)
        /\ ("organization_id" \in DOMAIN lastResp.payload
              /\ lastResp.payload["organization_id"] # OrgOf(lastResp.role))
            => lastResp.rows = {}

\* C18 witness: a user's update of a candidate of their own organization
\* setting organization_id to another organization's id was rejected by row
\* security, and the candidate is still in the user's organization.
C18_Witness ==
    /\ lastResp.kind = "update"
    /\ lastResp.table = "candidates"
    /\ lastResp.role = "u1"
    /\ lastResp.payload = ("organization_id" :> "O2")
    /\ lastResp.status = "rls"
    /\ \E c \in db.candidates : c.id = lastResp.target /\ c.organization_id = "O1"

---------------------------------------------------------------------------
(* Properties of tags *)

\* The association rows that reference tag id in store d.
TagUses(d, id) == {ct \in d.candidate_tags : ct.tag_id = id}

\* C15: a delete of a tag leaves the candidates as they were; a delete of a
\* tag that an association row references is rejected and leaves the store
\* as it was; every association row references a stored tag and a stored
\* candidate.
C15_TagDeleteKeepsCandidates ==
    /\ [](\A ct \in db.candidate_tags :
            /\ \E g \in db.tags : g.id = ct.tag_id
            /\ \E c \in db.candidates : c.id = ct.candidate_id)
    /\ [][(lastResp'.kind = "delete" /\ lastResp'.table = "tags")
          => /\ db'.candidates = db.candidates
             /\ db'.candidate_tags = db.candidate_tags
             /\ TagUses(db, lastResp'.target) # {}
                  => (db' = db /\ lastResp'.rows = {}
                        /\ (lastResp'.role = ServiceRole => lastResp'.status = "constraint"))]_vars

\* C15 witness: the service role's delete of a tag that an association row
\* references was answered with a constraint violation, and the tag and the
\* association row are stored.
C15_Witness ==
    /\ lastResp.kind = "delete"
    /\ lastResp.table = "tags"
    /\ lastResp.role = ServiceRole
    /\ lastResp.status = "constraint"
    /\ TagUses(db, lastResp.target) # {}
    /\ \E g \in db.tags : g.id = lastResp.target

---------------------------------------------------------------------------
(* Properties of Templates *)

\* The requests sent, and the functions resumed, by a step.
Sent == inflight' \ inflight
Resumed == inflight \ inflight'

\* s is t followed by at least one more element.
ProperExtension(s, t) == Len(s) > Len(t) /\ SubSeq(s, 1, Len(t)) = t

\* C12: a duplicate the store accepts adds exactly one record and changes no
\* other; the new record's id is new, its name is the name of the template
\* duplicated followed by a suffix, and its content, variables and type are
\* those of the template duplicated.
C12_DuplicateAddsOneCopy ==
    [][\A op \in Sent :
          (op.kind = "duplicate" /\ op.status = "ok") =>
              /\ Cardinality(op.rows) = 1
              /\ db'.templates = db.templates \cup op.rows
              /\ \A new \in op.rows : \A orig \in op.target :
                    /\ new \notin db.templates
                    /\ \A r \in db.templates : r.id # new.id
                    /\ new.id # orig.id
                    /\ ProperExtension(new.name, orig.name)
                    /\ new.name # orig.name
                    /\ new.content = orig.content
                    /\ new.variables = orig.variables
                    /\ new.type = orig.type]_vars

\* C12 witness: a duplicate of a stored template with variables has been
\* accepted, and the template and its copy are both stored.
C12_Witness ==
    \E op \in inflight :
        /\ op.kind = "duplicate"
        /\ op.status = "ok"
        /\ op.rows \subseteq db.templates
        /\ op.target \subseteq db.templates
        /\ \E orig \in op.target : orig.variables # NullJson

WriteKinds == {"create", "update", "delete", "duplicate"}

\* C16: a create, update, delete or duplicate that fails leaves the stored
\* rows as they were when it is sent, and when its handler resumes leaves
\* the stored rows, the list, isEditing, selectedTemplate and formData as
\* they were.
C16_FailedMutationChangesNothing ==
    [][/\ \A op \in Sent : (op.kind \in WriteKinds /\ op.status = "error") => db' = db
       /\ \A op \in Resumed :
             (op.kind \in WriteKinds /\ op.status = "error") =>
                 UNCHANGED <<db, templates, isEditing, selectedTemplate, formData>>]_vars

\* C16 witness: an update that failed has run to its end, and the form is
\* open on the selected template with the edited content.
C16_Witness ==
    /\ lastDone = [kind |-> "update", status |-> "error"]
    /\ inflight = {}
    /\ isEditing
    /\ selectedTemplate # {}
    /\ formData.content = "Dear {name}"
    /\ \A t \in selectedTemplate : formData.content # t.content

\* The ids in the list.
ListIds == {templates[i].id : i \in 1..Len(templates)}

\* C20: once every create and duplicate has been answered, the list holds
\* every template they created.
C20_NoCreatedTemplateLost ==
    (inflight = {} /\ lastDone.kind \in {"create", "duplicate"} /\ lastDone.status = "ok") =>
        \A r \in db.templates \ TemplatesDb.templates : r.id \in ListIds

---------------------------------------------------------------------------
(* Properties of the Candidates page under overlapping fetches *)

\* C19: once every fetch that was issued has been answered, the displayed
\* candidates are the result of the query built from the current search text
\* and filters.
C19_DisplayedIsCurrentQuery ==
    (user # NULL /\ mounted /\ inflight = {}) =>
        LET res == CandidatesQuery(db, user, searchQuery, filters)
        IN  ~res.error => candidates = res.data

---------------------------------------------------------------------------
(* Properties of the pages when fetches fail *)

FetchKinds == {"fetchCandidates", "fetchTemplates", "fetchDashboardData"}

\* The fetch that ended in this step found no profile or organization, got an
\* error or threw.
FetchFailed == lastDone'.kind \in FetchKinds /\ lastDone'.status \in {"error", "returned"}

\* C17: a fetch of a signed-in user that ends in failure ends with loading =
\* false and the data the page held; and a page opened by a signed-in user
\* does not stay in the loading state.
C17_FailedFetchEndsLoading ==
    /\ [][(Resumed # {} /\ lastDone' # lastDone /\ FetchFailed) =>
             /\ lastDone'.kind = "fetchCandidates" => ~loading' /\ candidates' = candidates
             /\ lastDone'.kind = "fetchTemplates" => ~templatesLoading' /\ templates' = templates
             /\ lastDone'.kind = "fetchDashboardData" =>
                    ~dashboardLoading' /\ stats' = stats /\ recentActivities' = recentActivities]_vars
    /\ (user # NULL /\ mounted) ~> ~loading
    /\ (user # NULL /\ templatesMounted) ~> ~templatesLoading
    /\ (user # NULL /\ dashboardMounted) ~> ~dashboardLoading

\* C17 witness: processing the Dashboard's response threw, and the page left
\* the loading state with the statistics it held.
C17_Witness ==
    /\ user # NULL
    /\ lastDone = [kind |-> "fetchDashboardData", status |-> "error"]
    /\ ~dashboardLoading
    /\ inflight = {}

---------------------------------------------------------------------------
(* Properties of the Templates list against the store *)

SameFormColumns(a, b) ==
    /\ a.name = b.name /\ a.type = b.type
    /\ a.content = b.content /\ a.variables = b.variables

\* C21: when handleUpdateTemplate or handleDeleteTemplate ends without taking
\* its error branch, the id it removed from the list is not in the store, and
\* the template it edited in the list is in the store with the same name,
\* type, content and variables.
C21_ListAgreesWithStore ==
    [][\A op \in Resumed :
          (op.kind \in {"update", "delete"} /\ op.status = "ok") =>
              LET id == The(op.target).id
              IN  /\ op.kind = "delete" =>
                        /\ \A i \in 1..Len(templates') : templates'[i].id # id
                        /\ \A r \in db'.templates : r.id # id
                  /\ op.kind = "update" =>
                        \A i \in 1..Len(templates') :
                            templates'[i].id = id =>
                                \E r \in db'.templates :
                                    r.id = id /\ SameFormColumns(r, templates'[i])]_vars

---------------------------------------------------------------------------
(* Properties of Layout *)

\* checkAuth completed in this step and found no session.
CheckFoundNoSession == \E op \in Resumed : op.kind = "getSession" /\ op.data = "none"

\* SIGNED_OUT is delivered in this step.
SignedOutEvent == session # "none" /\ session' = "none"

\* C22: while Layout is mounted, a completed auth check that found no session
\* and a SIGNED_OUT event each navigate to /auth; an unmounted Layout has no
\* callback registered and a SIGNED_OUT event then causes no navigation.
C22_LayoutGuardsSession ==
    /\ [](~layoutMounted => ~subscribed)
    /\ [][(layoutMounted /\ (CheckFoundNoSession \/ SignedOutEvent)) =>
               (route' = "/auth" /\ ~layoutMounted')]_vars
    /\ [][(~layoutMounted /\ SignedOutEvent) => UNCHANGED <<route, lastNav>>]_vars

\* C22 witness: Layout's callback has navigated to /auth, Layout is unmounted
\* and its callback is no longer registered.
C22_Witness ==
    /\ lastNav = "onAuthStateChange"
    /\ route = "/auth"
    /\ ~layoutMounted
    /\ ~subscribed
    /\ session = "none"

====
